---- MODULE Spec2Model ----
(***************************************************************************)
(* A model of platina (src/src/lib.rs): the golden-file parser             *)
(* (TestCase::new), the writer (TestCase::write), the compare-and-update   *)
(* protocol (TestCase::get_param, TestCase::compare_and_update_param) and  *)
(* the run loop (TestFile::run_test_) in check and update mode.            *)
(*                                                                         *)
(* A Rust String is a sequence of one-character strings; the file on disk  *)
(* is one such sequence, newlines included.  Option<T> is <<>> (None) or   *)
(* <<v>> (Some(v)).  A HashMap is a function whose DOMAIN is its key set.  *)
(* I/O errors (the `?` paths of File::open, File::create, read_line and    *)
(* write) are not modelled: the file always exists and every read and      *)
(* write succeeds.                                                         *)
(***************************************************************************)
EXTENDS Naturals, Sequences, FiniteSets, TLC

VARIABLES
    disk,      \* contents of the file self.file names
    tester,    \* the injected Testable: a script of compare-and-update calls
    pc,        \* position in run_test_: idle, parsing, running, aggregated, asserting, done
    update,    \* run_test_'s `update` argument
    reader,    \* Some(unread rest of the file) while the BufReader is alive
    cases,     \* run_test_'s `cases` vector
    idx,       \* index of the case the `for case in &mut cases` loop is at
    tpc,       \* 0: run_testcase not entered; k > 0: the tester is at its k-th call
    failures,  \* run_test_'s `failures` report
    result,    \* how the run ended: none, ok, failed (the assert!), format_error (a parser panic)
    log,       \* the run's events in order (history)
    disk0,     \* the file's contents when the run started (history)
    parsed,    \* the cases as the parser returned them, before any tester call (history)
    lastCall,  \* the last compare_and_update_param call and what it found (history)
    prev       \* mode, outcome and input of the previous run (history)

vars == <<disk, tester, pc, update, reader, cases, idx, tpc, failures, result,
          log, disk0, parsed, lastCall, prev>>

(***************************************************************************)
(* Strings                                                                 *)
(***************************************************************************)
NL == "\n"

\* const CASE_SEP: eleven '='
CASE_SEP == <<"=", "=", "=", "=", "=", "=", "=", "=", "=", "=", "=">>

\* const PARAM_SEP: eleven '-'
PARAM_SEP == <<"-", "-", "-", "-", "-", "-", "-", "-", "-", "-", "-">>

\* char::is_whitespace, as far as the model's alphabet goes
WhiteSpace == {" ", NL, "\t", "\r"}

None == <<>>

Some(v) == <<v>>

\* str::starts_with
starts_with(s, p) == Len(s) >= Len(p) /\ SubSeq(s, 1, Len(p)) = p

\* str::ends_with
ends_with(s, p) == Len(s) >= Len(p) /\ SubSeq(s, Len(s) - Len(p) + 1, Len(s)) = p

RECURSIVE trim_start(_)
\* str::trim_start
trim_start(s) ==
    IF s # <<>> /\ Head(s) \in WhiteSpace THEN trim_start(Tail(s)) ELSE s

RECURSIVE trim_end(_)
\* str::trim_end
trim_end(s) ==
    IF s # <<>> /\ s[Len(s)] \in WhiteSpace THEN trim_end(SubSeq(s, 1, Len(s) - 1)) ELSE s

\* a trim that strips newlines only
trim_newlines(s) ==
    LET strip(c) == c = NL
        keep == {i \in 1..Len(s) : ~strip(s[i])}
    IN  IF keep = {} THEN <<>>
        ELSE SubSeq(s, CHOOSE i \in keep : \A j \in keep : i <= j,
                       CHOOSE i \in keep : \A j \in keep : i >= j)

\* str::trim
trim(s) == trim_end(trim_start(s))

RECURSIVE pop_all_newlines(_)
\* a parser that removes every trailing newline of a value
pop_all_newlines(s) ==
    IF s # <<>> /\ s[Len(s)] = NL THEN pop_all_newlines(SubSeq(s, 1, Len(s) - 1)) ELSE s

\* a parser that forgets to remove the final newline of a value
pop_nothing(s) == s

\* String::pop: drops the last character, whatever it is; nothing on ""
pop(s) == IF s = <<>> THEN s ELSE SubSeq(s, 1, Len(s) - 1)

RECURSIVE line_end(_, _)
\* index of the first newline of s at or after i, or Len(s) when there is none
line_end(s, i) ==
    IF i >= Len(s) THEN Len(s)
    ELSE IF s[i] = NL THEN i ELSE line_end(s, i + 1)

\* BufRead::read_line on a non-empty rest: the line through its newline, and what follows
read_line(r) ==
    LET n == line_end(r, 1)
    IN  [line |-> SubSeq(r, 1, n), rest |-> SubSeq(r, n + 1, Len(r))]

\* a map that keeps the value of a key it already holds (entry().or_insert)
insert_keep(m, k, v) == [x \in DOMAIN m \cup {k} |-> IF x \in DOMAIN m THEN m[x] ELSE v]

\* HashMap::insert
insert(m, k, v) == [x \in DOMAIN m \cup {k} |-> IF x = k THEN v ELSE m[x]]

RECURSIVE Cat(_)
\* the concatenation of a sequence of strings
Cat(ss) == IF ss = <<>> THEN <<>> ELSE Head(ss) \o Cat(Tail(ss))

(***************************************************************************)
(* TestCase::new                                                           *)
(***************************************************************************)
\* the TestCase literal new() starts from
EmptyCase == [name |-> <<>>, params |-> <<>>, order |-> <<>>, diffs |-> <<>>]

\* the two assert!s on a case header line
CaseHeaderOk(trimmed) ==
    /\ starts_with(trimmed, <<"[">>)
    /\ ends_with(trimmed, <<"]">>)
    /\ Len(trimmed) > 2

\* the assert! on a parameter header line
ParamHeaderOk(trimmed) ==
    /\ starts_with(trimmed, <<"[">>)
    /\ ends_with(trimmed, <<"]">>)

\* &trimmed[1..trimmed.len()-1]
Inner(trimmed) == SubSeq(trimmed, 2, Len(trimmed) - 1)

RECURSIVE seek_header(_)
\* the first loop of new(): skip blank lines up to the case header
seek_header(r) ==
    IF r = <<>> THEN [kind |-> "eof"]
    ELSE LET l == read_line(r)
             trimmed == trim(l.line)
         IN  IF trimmed # <<>>
             THEN IF CaseHeaderOk(trimmed)
                  THEN [kind |-> "header", name |-> Inner(trimmed), rest |-> l.rest]
                  ELSE [kind |-> "panic"]
             ELSE seek_header(l.rest)

RECURSIVE read_body_exact(_, _, _)
\* a parser that takes only a line equal to the marker for a separator
read_body_exact(r, case, cur_param) ==
    IF r = <<>> THEN [kind |-> "panic"]
    ELSE LET l == read_line(r)
             trimmed == trim(l.line)
         IN  IF cur_param # None
             THEN LET param == cur_param[1]
                  IN  IF trimmed = PARAM_SEP
                      THEN read_body_exact(l.rest,
                                     [case EXCEPT !.params[param] = pop(@)],
                                     None)
                      ELSE read_body_exact(l.rest,
                                     [case EXCEPT !.params[param] = @ \o l.line],
                                     cur_param)
             ELSE IF trimmed = CASE_SEP
             THEN [kind |-> "some", case |-> case, rest |-> l.rest]
             ELSE IF trimmed # <<>>
             THEN IF ParamHeaderOk(trimmed)
                  THEN LET name == Inner(trimmed)
                       IN  read_body_exact(l.rest,
                                     [case EXCEPT !.params = insert(@, name, <<>>),
                                                  !.order = Append(@, name)],
                                     Some(name))
                  ELSE [kind |-> "panic"]
             ELSE read_body_exact(l.rest, case, cur_param)

RECURSIVE read_body_partial(_, _, _)
\* a parser that returns the case read so far when the stream ends inside it
read_body_partial(r, case, cur_param) ==
    IF r = <<>> THEN [kind |-> "some", case |-> case, rest |-> r]
    ELSE LET l == read_line(r)
             trimmed == trim(l.line)
         IN  IF cur_param # None
             THEN LET param == cur_param[1]
                  IN  IF starts_with(trimmed, PARAM_SEP)
                      THEN read_body_partial(l.rest,
                                     [case EXCEPT !.params[param] = pop(@)],
                                     None)
                      ELSE read_body_partial(l.rest,
                                     [case EXCEPT !.params[param] = @ \o l.line],
                                     cur_param)
             ELSE IF starts_with(trimmed, CASE_SEP)
             THEN [kind |-> "some", case |-> case, rest |-> l.rest]
             ELSE IF trimmed # <<>>
             THEN IF ParamHeaderOk(trimmed)
                  THEN LET name == Inner(trimmed)
                       IN  read_body_partial(l.rest,
                                     [case EXCEPT !.params = insert(@, name, <<>>),
                                                  !.order = Append(@, name)],
                                     Some(name))
                  ELSE [kind |-> "panic"]
             ELSE read_body_partial(l.rest, case, cur_param)

RECURSIVE read_body(_, _, _)
\* the second loop of new(): the case body, with cur_param None or Some(name)
read_body(r, case, cur_param) ==
    IF r = <<>> THEN [kind |-> "panic"]
    ELSE LET l == read_line(r)
             trimmed == trim(l.line)
         IN  IF cur_param # None
             THEN LET param == cur_param[1]
                  IN  IF starts_with(trimmed, PARAM_SEP)
                      THEN read_body(l.rest,
                                     [case EXCEPT !.params[param] = pop(@)],
                                     None)
                      ELSE read_body(l.rest,
                                     [case EXCEPT !.params[param] = @ \o l.line],
                                     cur_param)
             ELSE IF starts_with(trimmed, CASE_SEP)
             THEN [kind |-> "some", case |-> case, rest |-> l.rest]
             ELSE IF trimmed # <<>>
             THEN IF ParamHeaderOk(trimmed)
                  THEN LET name == Inner(trimmed)
                       IN  read_body(l.rest,
                                     [case EXCEPT !.params = insert(@, name, <<>>),
                                                  !.order = Append(@, name)],
                                     Some(name))
                  ELSE [kind |-> "panic"]
             ELSE read_body(l.rest, case, cur_param)

\* TestCase::new: "some" with the case and the unread rest, "none" at end of stream,
\* "panic" on a failed assert! or on the final panic!
TestCase_new(r) ==
    LET h == seek_header(r)
    IN  IF h.kind = "panic" THEN [kind |-> "panic"]
        ELSE IF h.kind = "eof" THEN [kind |-> "none"]
        ELSE read_body(h.rest, [EmptyCase EXCEPT !.name = h.name], None)

(***************************************************************************)
(* TestCase::write                                                         *)
(***************************************************************************)
\* format!("[{}]\n", s)
Bracketed(s) == <<"[">> \o s \o <<"]", NL>>

\* a writer that leaves out the newline after the value
write_param_no_newline(case, param) ==
    Bracketed(param) \o case.params[param] \o PARAM_SEP \o <<NL>>

\* the three writes of one parameter
write_param(case, param) ==
    Bracketed(param) \o case.params[param] \o <<NL>> \o PARAM_SEP \o <<NL>>

\* TestCase::write: the bytes written for one case
TestCase_write(case) ==
    Bracketed(case.name)
        \o Cat([i \in 1..Len(case.order) |-> write_param(case, case.order[i])])
        \o CASE_SEP \o <<NL, NL>>

\* the `for case in &cases { case.write(..) }` loop of run_test_
write_all(cs) == Cat([i \in 1..Len(cs) |-> TestCase_write(cs[i])])

RECURSIVE parse_all(_, _)
\* the `while let Some(case) = TestCase::new(&mut reader)?` loop of run_test_, run to its
\* end on the rest r with the cases acc read so far
parse_all(r, acc) ==
    LET c == TestCase_new(r)
    IN  IF c.kind = "panic" THEN [ok |-> FALSE, cases |-> acc]
        ELSE IF c.kind = "none" THEN [ok |-> TRUE, cases |-> acc]
        ELSE parse_all(c.rest, Append(acc, c.case))

(***************************************************************************)
(* TestCase::get_param, TestCase::compare_and_update_param                 *)
(***************************************************************************)
\* get_param: Some(value) or None
get_param(case, param) ==
    IF param \in DOMAIN case.params THEN Some(case.params[param]) ELSE None

\* a compare_and_update_param that lists a parameter it creates in the order list
cau_push_order(case, param, expected) ==
    LET actual == IF param \in DOMAIN case.params THEN case.params[param] ELSE <<>>
        stored == [case EXCEPT !.params = insert(@, param, expected),
                               !.order = IF param \in DOMAIN case.params
                                         THEN @ ELSE Append(@, param)]
    IN  IF actual # expected
        THEN [stored EXCEPT !.diffs =
                 Append(@, [param |-> param, expected |-> expected, actual |-> actual])]
        ELSE stored

\* a compare_and_update_param that compares the lengths of the two values
cau_compare_len(case, param, expected) ==
    LET actual == IF param \in DOMAIN case.params THEN case.params[param] ELSE <<>>
        stored == [case EXCEPT !.params = insert(@, param, expected)]
    IN  IF Len(actual) # Len(expected)
        THEN [stored EXCEPT !.diffs =
                 Append(@, [param |-> param, expected |-> expected, actual |-> actual])]
        ELSE stored

\* the value the insert displaced, or "" (unwrap_or)
displaced(case, param) ==
    IF param \in DOMAIN case.params THEN case.params[param] ELSE <<>>

\* a compare_and_update_param that records a Diff on every call
cau_always_diff(case, param, expected) ==
    LET actual == IF param \in DOMAIN case.params THEN case.params[param] ELSE <<>>
    IN  [case EXCEPT !.params = insert(@, param, expected),
                     !.diffs = Append(@, [param |-> param, expected |-> expected,
                                          actual |-> actual])]

\* a compare_and_update_param that records the mismatch and keeps the stored value
cau_keep_stored(case, param, expected) ==
    LET actual == IF param \in DOMAIN case.params THEN case.params[param] ELSE <<>>
    IN  IF actual # expected
        THEN [case EXCEPT !.diffs =
                 Append(@, [param |-> param, expected |-> expected, actual |-> actual])]
        ELSE case

\* compare_and_update_param: Diff.expected is the new value, Diff.actual the displaced one
compare_and_update_param(case, param, expected) ==
    LET actual == displaced(case, param)
        stored == [case EXCEPT !.params = insert(@, param, expected)]
    IN  IF actual # expected
        THEN [stored EXCEPT !.diffs =
                 Append(@, [param |-> param, expected |-> expected, actual |-> actual])]
        ELSE stored

(***************************************************************************)
(* The failure report of run_test_                                         *)
(***************************************************************************)
\* format!("CASE FAILED: {}\n", case.name), as a record
CaseFailed(case) ==
    [kind |-> "CASE FAILED", name |-> case.name, expected |-> <<>>, actual |-> <<>>]

\* a report that prints each Diff field under the label of its own name
ParamMismatch_own_labels(diff) ==
    [kind |-> "PARAM MISMATCH", name |-> diff.param,
     expected |-> diff.expected, actual |-> diff.actual]

\* format!("PARAM MISMATCH: {}\nexpected: {}\nactual: {}\n", diff.param, diff.actual,
\* diff.expected), as a record: the `expected:` field prints diff.actual
ParamMismatch(diff) ==
    [kind |-> "PARAM MISMATCH", name |-> diff.param,
     expected |-> diff.actual, actual |-> diff.expected]

\* a report that puts the case marker after the case's mismatch records
case_report_marker_last(case) ==
    [i \in 1..Len(case.diffs) |->
        [kind |-> "PARAM MISMATCH", name |-> case.diffs[i].param,
         expected |-> case.diffs[i].actual, actual |-> case.diffs[i].expected]]
        \o (IF case.diffs # <<>>
            THEN <<[kind |-> "CASE FAILED", name |-> case.name,
                    expected |-> <<>>, actual |-> <<>>]>>
            ELSE <<>>)

\* what one case adds to `failures`
case_report(case) ==
    (IF case.diffs # <<>> THEN <<CaseFailed(case)>> ELSE <<>>)
        \o [i \in 1..Len(case.diffs) |-> ParamMismatch(case.diffs[i])]

\* the `for case in &cases` loop that builds `failures`
report(cs) == Cat([i \in 1..Len(cs) |-> case_report(cs[i])])

(***************************************************************************)
(* The injected test logic (trait Testable)                                *)
(***************************************************************************)
INPUT == <<"i", "n", "p", "u", "t">>

EXPECTED_OUTPUT == <<"e", "x", "p", "e", "c", "t", "e", "d", "_", "o", "u", "t", "p", "u", "t">>

\* a parameter no file of the model gives a header
UNLISTED == <<"n", "e", "w">>

\* the longest value the `pad` logic grows a value to
MaxValLen == 2

\* the most compare_and_update_param calls a tester makes per case
MaxCalls == 2

\* the most blocks a file of the model is made of
MaxCases == 2

\* str::replace("a", "b"): the stand-in for SimpleTester's replace("test case", "result")
replace(v) == [i \in 1..Len(v) |-> IF v[i] = "a" THEN "b" ELSE v[i]]

\* the value a call computes from what get_param returned (None reads as "")
Compute(fn, got) ==
    LET v == IF got = None THEN <<>> ELSE got[1]
    IN  CASE fn = "replace" -> replace(v)
          [] fn = "pad"     -> IF Len(v) < MaxValLen THEN v \o <<"x">> ELSE v
          [] fn = "line"    -> v \o <<NL>>
          [] fn = "sep"     -> PARAM_SEP

\* tests::SimpleTester: expected_output := f(input)
OpSimple == [dst |-> EXPECTED_OUTPUT, src |-> INPUT, fn |-> "replace"]

\* logic that computes a parameter from its own stored value
OpSelf == [dst |-> EXPECTED_OUTPUT, src |-> EXPECTED_OUTPUT, fn |-> "pad"]

\* logic whose value is a line that reads as the parameter separator
OpSep == [dst |-> EXPECTED_OUTPUT, src |-> INPUT, fn |-> "sep"]

\* logic that declares a parameter the file does not list
OpNew == [dst |-> UNLISTED, src |-> INPUT, fn |-> "replace"]

\* logic whose value ends in a newline
OpLine == [dst |-> EXPECTED_OUTPUT, src |-> INPUT, fn |-> "line"]

Ops == {OpSimple, OpSelf, OpSep, OpNew, OpLine}

\* sequences over S of length at most n
SeqsUpTo(S, n) == UNION {[1..k -> S] : k \in 0..n}

\* every script of at most MaxCalls calls
Testers == SeqsUpTo(Ops, MaxCalls)

SimpleTester == <<OpSimple>>

(***************************************************************************)
(* The files the model starts from                                         *)
(***************************************************************************)
\* a line: its content and the newline
Ln(s) == s \o <<NL>>

\* a parameter block: header, value lines, separator
ParamBlock(name, lines) == Bracketed(name) \o Cat(lines) \o Ln(PARAM_SEP)

\* case c, input = "a", expected_output = "b": what SimpleTester computes
BlockMatch ==
    Bracketed(<<"c">>) \o ParamBlock(INPUT, <<Ln(<<"a">>)>>)
        \o ParamBlock(EXPECTED_OUTPUT, <<Ln(<<"b">>)>>) \o Ln(CASE_SEP) \o <<NL>>

\* case d, input = "a", expected_output = "w": not what SimpleTester computes
BlockWrong ==
    Bracketed(<<"d">>) \o ParamBlock(INPUT, <<Ln(<<"a">>)>>)
        \o ParamBlock(EXPECTED_OUTPUT, <<Ln(<<"w">>)>>) \o Ln(CASE_SEP) \o <<NL>>

\* a case with input only
BlockInputOnly ==
    Bracketed(<<"c">>) \o ParamBlock(INPUT, <<Ln(<<"a">>)>>) \o Ln(CASE_SEP)

\* expected_output defined twice, the second time over two lines
BlockDuplicate ==
    Bracketed(<<"d">>) \o ParamBlock(EXPECTED_OUTPUT, <<Ln(<<"b">>)>>)
        \o ParamBlock(EXPECTED_OUTPUT, <<Ln(<<"w">>), Ln(<<"w">>)>>) \o Ln(CASE_SEP) \o <<NL>>

\* indented header, blank lines, an empty value, separators with trailing characters
BlockLoose ==
    Ln(<<" ", "[", "c", "]", " ">>) \o <<NL>> \o Bracketed(<<"p">>)
        \o Ln(PARAM_SEP \o <<"x">>) \o Ln(CASE_SEP \o <<"x">>)

\* a parameter header with an empty name
BlockEmptyParam ==
    Bracketed(<<"c">>) \o ParamBlock(<<>>, <<Ln(<<"v">>)>>) \o Ln(CASE_SEP)

\* a blank and a whitespace-only line
BlockBlank == <<NL, " ", NL>>

\* whitespace, no newline at the end of the file
BlockSpaces == <<" ", " ">>

\* a case header with an empty name
BlockEmptyCase == Bracketed(<<>>)

\* a case header with no closing bracket
BlockOpenHeader == Ln(<<"[", "c">>)

\* a line in a case body that is no header
BlockBareLine == Bracketed(<<"c">>) \o Ln(<<"v">>) \o Ln(CASE_SEP)

\* the stream ends inside a parameter block
BlockCutShort == Bracketed(<<"c">>) \o Bracketed(<<"p">>) \o Ln(<<"v">>)

\* the stream ends right after a case header
BlockHeaderOnly == Bracketed(<<"c">>)

\* a case separator line inside an open parameter block, then the stream ends
BlockAbsorbed == Bracketed(<<"c">>) \o Bracketed(<<"p">>) \o Ln(CASE_SEP)

TesterBlocks == {BlockMatch, BlockWrong}

FormatBlocks ==
    {BlockInputOnly, BlockDuplicate, BlockLoose, BlockEmptyParam, BlockBlank, BlockSpaces,
     BlockEmptyCase, BlockOpenHeader, BlockBareLine, BlockCutShort, BlockHeaderOnly,
     BlockAbsorbed}

\* the files made of at most MaxCases blocks of B
FilesOf(B) == {Cat(bs) : bs \in SeqsUpTo(B, MaxCases)}

(***************************************************************************)
(* TestFile::run_test_                                                     *)
(***************************************************************************)
Event(ev, k) == [ev |-> ev, case |-> k]

\* a run that rewrites the file in both modes
rewrites_always(u) == TRUE

\* the `if update` of run_test_
rewrites(u) == u

\* an update mode that re-baselines the file and reports success
outcome_quiet_update(f, u) == IF f = <<>> \/ u THEN "ok" ELSE "failed"

\* the assert!(failures == "") that ends run_test_
outcome(f, u) == IF f = <<>> THEN "ok" ELSE "failed"

\* a loop that stops at the first case with a mismatch
continues_if_clean(case) == case.diffs = <<>>

\* whether the `for case in &mut cases` loop goes on to the case after `case`
continues(case) == TRUE

\* a TestFile on one of the model's files and a tester: every tester on the files of
\* well-formed cases, SimpleTester on the files of every shape
Init ==
    /\ \/ disk \in FilesOf(TesterBlocks) /\ tester \in Testers
       \/ disk \in FilesOf(FormatBlocks) /\ tester = SimpleTester
    /\ pc = "idle"
    /\ update = FALSE
    /\ reader = None
    /\ cases = <<>>
    /\ idx = 1
    /\ tpc = 0
    /\ failures = <<>>
    /\ result = "none"
    /\ log = <<>>
    /\ disk0 = disk
    /\ parsed = <<>>
    /\ lastCall = None
    /\ prev = None

\* run_tests (u = FALSE) or run_tests_and_update (u = TRUE) is called: File::open
StartRun(u) ==
    /\ pc \in {"idle", "done"}
    /\ pc' = "parsing"
    /\ update' = u
    /\ reader' = Some(disk)
    /\ cases' = <<>>
    /\ idx' = 1
    /\ tpc' = 0
    /\ failures' = <<>>
    /\ result' = "none"
    /\ log' = <<Event("open", 0)>>
    /\ disk0' = disk
    /\ parsed' = <<>>
    /\ lastCall' = None
    /\ prev' = IF pc = "done"
               THEN Some([update |-> update, result |-> result, disk0 |-> disk0,
                          parsed |-> parsed, cases |-> cases])
               ELSE None
    /\ UNCHANGED <<disk, tester>>

\* `while let Some(case) = TestCase::new(&mut reader)?`: one more case
ParseCase ==
    /\ pc = "parsing"
    /\ LET r == TestCase_new(reader[1])
       IN  /\ r.kind = "some"
           /\ cases' = Append(cases, r.case)
           /\ reader' = Some(r.rest)
    /\ UNCHANGED <<disk, tester, pc, update, idx, tpc, failures, result, log, disk0,
                   parsed, lastCall, prev>>

\* a run that keeps the reader open until run_test_ returns
ParseEnd_keeps_reader ==
    /\ pc = "parsing"
    /\ TestCase_new(reader[1]).kind = "none"
    /\ parsed' = cases
    /\ pc' = "running"
    /\ UNCHANGED <<disk, tester, update, reader, cases, idx, tpc, failures, result, log,
                   disk0, lastCall, prev>>

\* TestCase::new returned None: the loop ends and the reader is dropped
ParseEnd ==
    /\ pc = "parsing"
    /\ TestCase_new(reader[1]).kind = "none"
    /\ reader' = None
    /\ parsed' = cases
    /\ pc' = "running"
    /\ log' = Append(log, Event("drop_reader", 0))
    /\ UNCHANGED <<disk, tester, update, cases, idx, tpc, failures, result, disk0,
                   lastCall, prev>>

\* TestCase::new panicked: the run unwinds out of run_test_
ParsePanic ==
    /\ pc = "parsing"
    /\ TestCase_new(reader[1]).kind = "panic"
    /\ reader' = None
    /\ pc' = "done"
    /\ result' = "format_error"
    /\ log' = log \o <<Event("drop_reader", 0), Event("panic", 0)>>
    /\ UNCHANGED <<disk, tester, update, cases, idx, tpc, failures, disk0, parsed,
                   lastCall, prev>>

\* tester.run_testcase(case) is entered for the case the loop is at
RunTestcase ==
    /\ pc = "running"
    /\ tpc = 0
    /\ idx <= Len(cases)
    /\ tpc' = 1
    /\ log' = Append(log, Event("run", idx))
    /\ UNCHANGED <<disk, tester, pc, update, reader, cases, idx, failures, result, disk0,
                   parsed, lastCall, prev>>

\* the tester's next call: get_param on the source, compare_and_update_param on the target
TesterCall ==
    /\ pc = "running"
    /\ tpc \in 1..Len(tester)
    /\ LET op == tester[tpc]
           value == Compute(op.fn, get_param(cases[idx], op.src))
       IN  /\ cases' = [cases EXCEPT ![idx] = compare_and_update_param(@, op.dst, value)]
           /\ lastCall' = Some([case |-> idx, param |-> op.dst, value |-> value,
                                before |-> cases[idx]])
    /\ tpc' = tpc + 1
    /\ UNCHANGED <<disk, tester, pc, update, reader, idx, failures, result, log, disk0,
                   parsed, prev>>

\* run_testcase returns and the loop moves on
TesterReturn ==
    /\ pc = "running"
    /\ tpc = Len(tester) + 1
    /\ tpc' = 0
    /\ idx' = IF continues(cases[idx]) THEN idx + 1 ELSE Len(cases) + 1
    /\ UNCHANGED <<disk, tester, pc, update, reader, cases, failures, result, log, disk0,
                   parsed, lastCall, prev>>

\* after the last case: the loop that builds `failures`
Aggregate ==
    /\ pc = "running"
    /\ tpc = 0
    /\ idx > Len(cases)
    /\ failures' = report(cases)
    /\ pc' = "aggregated"
    /\ UNCHANGED <<disk, tester, update, reader, cases, idx, tpc, result, log, disk0,
                   parsed, lastCall, prev>>

\* `if update`: File::create, every case written, the writer dropped (and flushed)
Rewrite ==
    /\ pc = "aggregated"
    /\ rewrites(update)
    /\ disk' = write_all(cases)
    /\ log' = log \o <<Event("create", 0), Event("drop_writer", 0)>>
    /\ pc' = "asserting"
    /\ UNCHANGED <<tester, update, reader, cases, idx, tpc, failures, result, disk0,
                   parsed, lastCall, prev>>

\* check mode: the `if update` block is skipped
SkipRewrite ==
    /\ pc = "aggregated"
    /\ ~rewrites(update)
    /\ pc' = "asserting"
    /\ UNCHANGED <<disk, tester, update, reader, cases, idx, tpc, failures, result, log,
                   disk0, parsed, lastCall, prev>>

\* assert!(failures == "") and Ok(())
Signal ==
    /\ pc = "asserting"
    /\ result' = outcome(failures, update)
    /\ log' = Append(log, Event(IF result' = "ok" THEN "ok" ELSE "panic", 0))
    /\ pc' = "done"
    /\ UNCHANGED <<disk, tester, update, reader, cases, idx, tpc, failures, disk0,
                   parsed, lastCall, prev>>

Next ==
    \/ \E u \in BOOLEAN : StartRun(u)
    \/ ParseCase
    \/ ParseEnd
    \/ ParsePanic
    \/ RunTestcase
    \/ TesterCall
    \/ TesterReturn
    \/ Aggregate
    \/ Rewrite
    \/ SkipRewrite
    \/ Signal

Spec == Init /\ [][Next]_vars

(***************************************************************************)
(* Properties                                                              *)
(***************************************************************************)
Range(f) == {f[x] : x \in DOMAIN f}

\* the run events of the log, as the indices of the cases run_testcase was called on
Invoked ==
    LET runs == SelectSeq(log, LAMBDA e : e.ev = "run")
    IN  [i \in 1..Len(runs) |-> runs[i].case]

\* the previous run was an update run that got to rewrite the file
AfterRewrite == prev # None /\ prev[1].update /\ prev[1].result # "format_error"

\* the parsing phase of the current run is over
ParseFinished == pc \in {"running", "aggregated", "asserting", "done"}

NoDuplicateParams(case) ==
    \A i, j \in DOMAIN case.order : case.order[i] = case.order[j] => i = j

RECURSIVE HasSeparatorLine(_)
\* some line of v, trimmed, begins with the parameter separator
HasSeparatorLine(v) ==
    IF v = <<>> THEN FALSE
    ELSE LET l == read_line(v)
         IN  starts_with(trim(l.line), PARAM_SEP) \/ HasSeparatorLine(l.rest)

\* every value the writer emits for `case` is free of separator lines
WritableValues(case) ==
    \A i \in DOMAIN case.order : ~HasSeparatorLine(case.params[case.order[i]])

\* same name and same order list
SameShape(a, b) == a.name = b.name /\ a.order = b.order

\* C1 as stated: for any sequence of cases without duplicate parameter names, parsing
\* what the writer wrote gives the same number of cases, the same names in the same
\* order, the same order lists and the same value for every parameter.
C1_RoundTripAsStated ==
    (AfterRewrite /\ ParseFinished
        /\ \A k \in DOMAIN prev[1].cases : NoDuplicateParams(prev[1].cases[k]))
    => /\ result # "format_error"
       /\ Len(parsed) = Len(prev[1].cases)
       /\ \A k \in DOMAIN parsed :
            /\ SameShape(parsed[k], prev[1].cases[k])
            /\ parsed[k].params = prev[1].cases[k].params

\* C1, amended: for any sequence of cases without duplicate parameter names in which no
\* value of a listed parameter has a line that, trimmed, begins with the parameter
\* separator, parsing what the writer wrote gives the same number of cases, the same
\* names in the same order, the same order lists and the same value for every
\* parameter of the order list.
C1_RoundTrip ==
    (AfterRewrite /\ ParseFinished
        /\ \A k \in DOMAIN prev[1].cases :
             NoDuplicateParams(prev[1].cases[k]) /\ WritableValues(prev[1].cases[k]))
    => /\ result # "format_error"
       /\ Len(parsed) = Len(prev[1].cases)
       /\ \A k \in DOMAIN parsed :
            /\ SameShape(parsed[k], prev[1].cases[k])
            /\ \A i \in DOMAIN parsed[k].order :
                 parsed[k].params[parsed[k].order[i]]
                     = prev[1].cases[k].params[parsed[k].order[i]]

\* C1's case: a file written from two cases, one with a value the tester changed to
\* end in a newline, has been read back
C1_Witness ==
    /\ AfterRewrite /\ ParseFinished
    /\ Len(prev[1].cases) = 2
    /\ \A k \in DOMAIN prev[1].cases :
         NoDuplicateParams(prev[1].cases[k]) /\ WritableValues(prev[1].cases[k])
    /\ prev[1].cases[1].diffs # <<>>
    /\ prev[1].cases[1].params[EXPECTED_OUTPUT] = <<"a", NL>>
    /\ Len(parsed) = 2

\* no case of cs has a recorded Diff
NoDiffs(cs) == \A k \in DOMAIN cs : cs[k].diffs = <<>>

\* the current run is the second of two update runs in succession, and has ended
SecondUpdateDone == pc = "done" /\ update /\ AfterRewrite

\* C2 as stated: for every file that parses and every test logic deterministic given
\* the stored values, the second of two update runs in succession records no Diff and
\* signals success.
C2_IdempotentAsStated ==
    SecondUpdateDone => result = "ok" /\ NoDiffs(cases)

\* the test logic t, on the cases cs of the first run, updates each parameter at most
\* once per case, only parameters with a header in the case, with a value computed only
\* from parameters it never updates and free of separator lines
Reproducible(t, cs) ==
    /\ \A i, j \in DOMAIN t : t[i].dst = t[j].dst => i = j
    /\ \A i, j \in DOMAIN t : t[i].src # t[j].dst
    /\ \A k \in DOMAIN cs : \A i \in DOMAIN t :
         /\ t[i].dst \in Range(cs[k].order)
         /\ ~HasSeparatorLine(Compute(t[i].fn, get_param(cs[k], t[i].src)))

\* C2, amended: for every file that parses and every test logic that, in each case,
\* calls compareAndUpdate at most once per parameter, only on parameters that have a
\* header in that case, with a value that is computed only from parameters it never
\* updates and has no line that, trimmed, begins with the parameter separator, the
\* second of two update runs in succession records no Diff and signals success.
C2_Idempotent ==
    (SecondUpdateDone /\ Reproducible(tester, prev[1].parsed))
    => result = "ok" /\ NoDiffs(cases)

\* C2's case: the first update run failed on a mismatch, the second has ended
C2_Witness ==
    /\ SecondUpdateDone /\ Reproducible(tester, prev[1].parsed)
    /\ tester # <<>>
    /\ Len(cases) = 2
    /\ prev[1].result = "failed"
    /\ result = "ok"

\* the file f breaks the grammar: the parser rejects it, or a parameter header in it
\* has an empty name
ViolatesGrammar(f) ==
    LET p == parse_all(f, <<>>)
    IN  \/ ~p.ok
        \/ \E k \in DOMAIN p.cases : <<>> \in Range(p.cases[k].order)

\* the log has an event of kind ev
Logged(ev) == \E i \in DOMAIN log : log[i].ev = ev

\* C3: if any part of the file violates the grammar, the run aborts during parsing, the
\* test logic is never invoked and the file is neither opened for writing nor rewritten.
C3_FailFast ==
    (pc = "done" /\ ViolatesGrammar(disk0))
    => /\ result = "format_error"
       /\ Invoked = <<>>
       /\ ~Logged("create")
       /\ disk = disk0

\* what the code does keep of C3: a run the parser aborts has invoked no test logic and
\* written nothing
C3_AbortedRunIsClean ==
    result = "format_error"
    => pc = "done" /\ Invoked = <<>> /\ ~Logged("create") /\ disk = disk0

\* C4: update mode signals failure exactly when check mode does, that is exactly when
\* the report is non-empty; in update mode the file is rewritten with the stored values
\* whether or not the report is empty, and before the outcome is signalled.
C4_SameSignal ==
    /\ (pc = "done" /\ result # "format_error")
       => /\ failures = report(cases)
          /\ result = "failed" <=> failures # <<>>
          /\ result = "ok" <=> failures = <<>>
    /\ (pc = "done" /\ prev # None /\ prev[1].disk0 = disk0)
       => prev[1].result = result
    /\ (update /\ result \in {"ok", "failed"})
       => /\ disk = write_all(cases)
          /\ \E i \in DOMAIN log : log[i].ev = "drop_writer" /\ i < Len(log)
    /\ (update /\ ~Logged("drop_writer")) => result \in {"none", "format_error"}

\* C4's case: a check run and then an update run of the same file have both failed, and
\* the update run has rewritten the file
C4_Witness ==
    /\ pc = "done" /\ update /\ result = "failed"
    /\ prev # None /\ ~prev[1].update /\ prev[1].disk0 = disk0 /\ prev[1].result = "failed"
    /\ disk # disk0

\* a value of one line that holds neither separator marker
Plain(v) ==
    /\ NL \notin Range(v)
    /\ \A i \in 1..Len(v) :
         ~starts_with(SubSeq(v, i, Len(v)), PARAM_SEP)
         /\ ~starts_with(SubSeq(v, i, Len(v)), CASE_SEP)

\* every case of cs defines input and expected_output, and what SimpleTester computes
\* from input is plain
Scenario(cs) ==
    \A k \in DOMAIN cs :
        /\ {INPUT, EXPECTED_OUTPUT} \subseteq DOMAIN cs[k].params
        /\ Plain(replace(cs[k].params[INPUT]))

\* the stored expected_output of case c is not what SimpleTester computes
Mismatch(c) == c.params[EXPECTED_OUTPUT] # replace(c.params[INPUT])

\* the report has the marker of case c directly followed by a mismatch of expected_output
Reported(c) ==
    \E j \in 1..(Len(failures) - 1) :
        /\ failures[j].kind = "CASE FAILED" /\ failures[j].name = c.name
        /\ failures[j + 1].kind = "PARAM MISMATCH"
        /\ failures[j + 1].name = EXPECTED_OUTPUT

\* C5: with cases that define input and expected_output and logic that sets
\* expected_output to a plain value computed from input, a stored mismatch makes check
\* mode fail with a mismatch entry for that case and parameter; update mode fails too
\* and rewrites the file so that every expected_output is the computed value; a check
\* run of the rewritten file then succeeds.
C5_Reconcile ==
    /\ (pc = "done" /\ tester = SimpleTester /\ result # "format_error"
            /\ Scenario(parsed) /\ \E k \in DOMAIN parsed : Mismatch(parsed[k]))
       => /\ result = "failed"
          /\ \A k \in DOMAIN parsed : Mismatch(parsed[k]) => Reported(parsed[k])
          /\ update =>
               LET p == parse_all(disk, <<>>)
               IN  /\ p.ok /\ Len(p.cases) = Len(parsed)
                   /\ \A k \in DOMAIN parsed :
                        p.cases[k].params[EXPECTED_OUTPUT]
                            = replace(parsed[k].params[INPUT])
    /\ (pc = "done" /\ tester = SimpleTester /\ ~update /\ AfterRewrite
            /\ Scenario(prev[1].parsed))
       => result = "ok"

\* C5's case: an update run that failed on a mismatch, then a check run that succeeded
C5_Witness ==
    /\ pc = "done" /\ tester = SimpleTester /\ ~update /\ AfterRewrite
    /\ Scenario(prev[1].parsed)
    /\ \E k \in DOMAIN prev[1].parsed : Mismatch(prev[1].parsed[k])
    /\ prev[1].result = "failed"
    /\ result = "ok"

\* C6: compareAndUpdate(param, value) always stores value under param, creating it if
\* absent, so that get(param) then returns value; it appends exactly one
\* Diff{param, previous, value} when value differs from the previously stored value
\* ("" if there was none) and nothing when they are equal; so every Diff has previous
\* different from new.
C6_CompareAndUpdate ==
    /\ lastCall # None =>
         LET c == lastCall[1]
             now == cases[c.case]
             previous == IF c.param \in DOMAIN c.before.params
                         THEN c.before.params[c.param] ELSE <<>>
         IN  /\ get_param(now, c.param) = Some(c.value)
             /\ \A q \in DOMAIN c.before.params :
                  q # c.param => get_param(now, q) = Some(c.before.params[q])
             /\ DOMAIN now.params = DOMAIN c.before.params \cup {c.param}
             /\ now.diffs =
                  IF c.value # previous
                  THEN c.before.diffs
                           \o <<[param |-> c.param, expected |-> c.value, actual |-> previous]>>
                  ELSE c.before.diffs
    /\ \A k \in DOMAIN cases : \A i \in DOMAIN cases[k].diffs :
         cases[k].diffs[i].expected # cases[k].diffs[i].actual

\* C6's case: the tester's first call found the stored value equal and recorded nothing,
\* its second call created a parameter and recorded a Diff
C6_Witness ==
    /\ lastCall # None
    /\ tpc = 3
    /\ lastCall[1].before.diffs = <<>>
    /\ EXPECTED_OUTPUT \in DOMAIN parsed[lastCall[1].case].params
    /\ lastCall[1].param \notin DOMAIN lastCall[1].before.params
    /\ lastCall[1].value # <<>>
    /\ Len(cases[lastCall[1].case].diffs) = 1

\* C7: every parsed case is passed to the test logic exactly once, in file order, also
\* after earlier cases recorded diffs; failure is signalled only after the last case
\* has run, and the run fails if and only if some case recorded a Diff.
C7_MismatchNotFatal ==
    /\ Invoked = [i \in 1..Len(Invoked) |-> i]
    /\ Len(Invoked) <= Len(cases)
    /\ pc \in {"aggregated", "asserting"} => Len(Invoked) = Len(cases)
    /\ (pc = "done" /\ result # "format_error")
       => /\ Len(Invoked) = Len(cases)
          /\ result = "failed" <=> ~NoDiffs(cases)
          /\ result = "ok" <=> NoDiffs(cases)
    /\ result \in {"ok", "failed"} => pc = "done"

\* C7's case: the first of two cases recorded a Diff, both were run and the run failed
C7_Witness ==
    /\ pc = "done" /\ result = "failed"
    /\ Len(cases) = 2
    /\ cases[1].diffs # <<>>
    /\ cases[2].diffs = <<>>
    /\ Invoked = <<1, 2>>

\* C8: a check-mode run never writes the file, whether it succeeds, fails on mismatches
\* or aborts on a format error.
C8_CheckModeReadOnly ==
    ~update => disk = disk0 /\ ~Logged("create")

\* C8's case: a check run has failed on a mismatch and the file is as it was
C8_Witness ==
    /\ pc = "done" /\ ~update /\ result = "failed"
    /\ disk = disk0
    /\ disk # write_all(cases)

RECURSIVE FirstOccurrences(_)
\* the sequence s without the repetitions of its elements
FirstOccurrences(s) ==
    IF s = <<>> THEN <<>>
    ELSE LET init == SubSeq(s, 1, Len(s) - 1)
             last == s[Len(s)]
         IN  IF last \in Range(init) THEN FirstOccurrences(init)
             ELSE Append(FirstOccurrences(init), last)

\* C9: a parameter a case body defines twice appears exactly once in the serialized
\* case, at the position of its first occurrence.
C9_SingleSlot ==
    (pc = "done" /\ update /\ result # "format_error")
    => \A k \in DOMAIN parsed :
         LET back == TestCase_new(TestCase_write(cases[k]))
         IN  back.kind = "some" => back.case.order = FirstOccurrences(parsed[k].order)

\* every character of f is whitespace: no line of f has content
IsBlank(f) == \A i \in DOMAIN f : f[i] \in WhiteSpace

\* C10: a file with no case header (no line, or blank and whitespace-only lines) parses
\* to zero cases without a format error, the test logic is never invoked and the run
\* succeeds, in check mode and in update mode.
C10_EmptyFile ==
    /\ (IsBlank(disk0) /\ pc = "done")
       => result = "ok" /\ cases = <<>> /\ Invoked = <<>> /\ failures = <<>>
    /\ (IsBlank(disk0) /\ pc \notin {"idle", "parsing"}) => parsed = <<>>
    /\ IsBlank(disk0) => result \in {"none", "ok"}

\* C10's case: an update run of a file of blank and whitespace-only lines has succeeded
\* after a check run of it succeeded
C10_Witness ==
    /\ pc = "done" /\ update /\ result = "ok"
    /\ IsBlank(disk0) /\ Len(disk0) > 2 /\ " " \in Range(disk0)
    /\ prev # None /\ ~prev[1].update /\ prev[1].result = "ok" /\ prev[1].disk0 = disk0

\* C11: every header line that is not well-formed is a fatal format error, for a case
\* header and for a parameter header alike (no opening bracket, no closing bracket, or
\* an empty name between them); so no parsed case and no parsed parameter has an empty
\* name.
C11_NoEmptyNames ==
    \A k \in DOMAIN cases :
        /\ cases[k].name # <<>>
        /\ \A i \in DOMAIN cases[k].order : cases[k].order[i] # <<>>

\* what the code does keep of C11: no parsed case has an empty name, and every parsed
\* parameter name came from a bracketed line
C11_CaseNamesNonEmpty == \A k \in DOMAIN cases : cases[k].name # <<>>

(***************************************************************************)
(* The grammar of 4.1, read off the lines of a file: a parameter block     *)
(* runs from its header to the next line that begins with the parameter    *)
(* separator; outside a block a line that begins with the case separator   *)
(* ends the case.                                                          *)
(***************************************************************************)
Min(S) == CHOOSE x \in S : \A y \in S : x <= y

Max(S) == CHOOSE x \in S : \A y \in S : x >= y

RECURSIVE Lines(_)
\* the lines of f, each with its newline (the last one may have none)
Lines(f) ==
    IF f = <<>> THEN <<>>
    ELSE LET ends == {i \in 1..Len(f) : f[i] = NL} \cup {Len(f)}
             n == Min(ends)
         IN  <<SubSeq(f, 1, n)>> \o Lines(SubSeq(f, n + 1, Len(f)))

\* a line without the whitespace around it
Content(l) ==
    LET keep == {i \in 1..Len(l) : l[i] \notin WhiteSpace}
    IN  IF keep = {} THEN <<>> ELSE SubSeq(l, Min(keep), Max(keep))

BeginsWith(c, p) == Len(c) >= Len(p) /\ \A i \in 1..Len(p) : c[i] = p[i]

\* `[` ... `]`
HeaderShaped(c) == Len(c) >= 2 /\ c[1] = "[" /\ c[Len(c)] = "]"

NameOf(c) == [i \in 1..(Len(c) - 2) |-> c[i + 1]]

RECURSIVE RefBody(_, _, _)
\* the body of a case from line i on, no parameter open: its blocks (name, first and
\* last value line), and how it ends
RefBody(L, i, blocks) ==
    IF i > Len(L) THEN [end |-> "eof_in_case", blocks |-> blocks, next |-> i]
    ELSE LET c == Content(L[i])
         IN  IF BeginsWith(c, CASE_SEP)
             THEN [end |-> "case", blocks |-> blocks, next |-> i + 1]
             ELSE IF c = <<>> THEN RefBody(L, i + 1, blocks)
             ELSE IF ~HeaderShaped(c)
             THEN [end |-> "bad_header", blocks |-> blocks, next |-> i]
             ELSE LET seps == {j \in (i + 1)..Len(L) : BeginsWith(Content(L[j]), PARAM_SEP)}
                  IN  IF seps = {}
                      THEN [end |-> "eof_in_case", blocks |-> blocks, next |-> Len(L) + 1]
                      ELSE RefBody(L, Min(seps) + 1,
                                   Append(blocks, [name |-> NameOf(c), first |-> i + 1,
                                                   last |-> Min(seps) - 1]))

RECURSIVE RefCases(_, _, _)
\* the cases of the file from line i on, and how the file ends: "ok", "eof_in_case" or
\* "bad_header"
RefCases(L, i, acc) ==
    LET heads == {j \in i..Len(L) : Content(L[j]) # <<>>}
    IN  IF heads = {} THEN [end |-> "ok", cases |-> acc]
        ELSE LET c == Content(L[Min(heads)])
             IN  IF ~(HeaderShaped(c) /\ Len(c) > 2)
                 THEN [end |-> "bad_header", cases |-> acc]
                 ELSE LET b == RefBody(L, Min(heads) + 1, <<>>)
                      IN  IF b.end = "case"
                          THEN RefCases(L, b.next,
                                        Append(acc, [name |-> NameOf(c), blocks |-> b.blocks]))
                          ELSE [end |-> b.end, cases |-> acc]

\* the grammar's reading of the file f
Ref(f) == RefCases(Lines(f), 1, <<>>)

\* parsing has just ended, with the cases as the parser returned them
ParseOver ==
    \/ pc = "running" /\ idx = 1 /\ tpc = 0
    \/ pc = "done" /\ result = "format_error"

\* C12: if the stream ends after a case header was read and before a case separator
\* was read with no parameter open (also with a parameter still open, or with a
\* separator-prefixed line taken into an open parameter's value), the parser raises a
\* format error and returns no partial case; end of stream is a normal end only while
\* seeking a case header.
C12_EofInCaseFatal ==
    ParseOver =>
        LET R == Ref(disk0)
        IN  /\ R.end = "eof_in_case"
               => result = "format_error" /\ Len(cases) = Len(R.cases)
            /\ result # "format_error" => R.end = "ok" /\ Len(cases) = Len(R.cases)

\* C12's case: after one complete case, a case whose parameter block took in a case
\* separator line and was still open at the end of the stream; the parser panicked
C12_Witness ==
    /\ ParseOver /\ result = "format_error"
    /\ Len(cases) = 1
    /\ Ref(disk0).end = "eof_in_case"
    /\ LET L == Lines(disk0)
       IN  /\ BeginsWith(Content(L[Len(L)]), CASE_SEP)
           /\ HeaderShaped(Content(L[Len(L) - 1]))

\* the lines of the value v as the writer and the parser see them
ValueLines(v) == Lines(v \o <<NL>>)

\* block i of `blocks` is the last one with its name
LastOfName(blocks, i) ==
    \A j \in DOMAIN blocks : blocks[j].name = blocks[i].name => j <= i

\* C13: separators are detected by prefix, depending on the parser's state: with a
\* parameter open, a line whose content begins with the parameter separator (whatever
\* follows) closes the parameter and is no part of its value, and every other line,
\* also one that begins with the case separator or is shaped like [name], is appended
\* to the value; with no parameter open, a line whose content begins with the case
\* separator (whatever follows) completes the case.
C13_PrefixSeparators ==
    ParseOver =>
        LET R == Ref(disk0)
            L == Lines(disk0)
        IN  /\ Len(cases) = Len(R.cases)
            /\ \A k \in DOMAIN cases :
                 LET bs == R.cases[k].blocks
                 IN  /\ cases[k].order = [i \in DOMAIN bs |-> bs[i].name]
                     /\ \A i \in DOMAIN bs :
                          LET v == cases[k].params[bs[i].name]
                          IN  /\ \A m \in DOMAIN ValueLines(v) :
                                   ~BeginsWith(Content(ValueLines(v)[m]), PARAM_SEP)
                              /\ LastOfName(bs, i) =>
                                   \A j \in bs[i].first..bs[i].last :
                                       (BeginsWith(Content(L[j]), CASE_SEP)
                                            \/ HeaderShaped(Content(L[j])))
                                       => \E m \in DOMAIN ValueLines(v) :
                                              ValueLines(v)[m] = L[j]

\* C13's case: a parsed value that took in a case-separator line and a [name] line; its
\* block was closed, and the case completed, by separator lines with trailing characters
C13_Witness ==
    /\ ParseOver /\ result # "format_error"
    /\ Len(cases) = 1
    /\ \E p \in DOMAIN cases[1].params :
         LET vl == ValueLines(cases[1].params[p])
         IN  /\ \E m \in DOMAIN vl : BeginsWith(Content(vl[m]), CASE_SEP)
             /\ \E m \in DOMAIN vl : HeaderShaped(Content(vl[m]))
    /\ LET L == Lines(disk0)
       IN  /\ Content(L[Len(L)]) = CASE_SEP \o <<"x">>
           /\ Content(L[Len(L) - 1]) = PARAM_SEP \o <<"x">>

\* C14: when a parameter block closes, the stored value is the lines read between the
\* header and the separator, each with its newline, with exactly one trailing newline
\* removed: k >= 1 lines are stored joined by newlines with no final newline, zero lines
\* as the empty string, and nothing but a newline is ever stripped.
C14_TrailingNewline ==
    ParseOver =>
        LET R == Ref(disk0)
            L == Lines(disk0)
        IN  \A k \in DOMAIN cases :
              k <= Len(R.cases) =>
                LET bs == R.cases[k].blocks
                IN  \A i \in DOMAIN bs :
                      LastOfName(bs, i) =>
                        LET v == cases[k].params[bs[i].name]
                            raw == Cat([j \in 1..(bs[i].last - bs[i].first + 1)
                                            |-> L[bs[i].first + j - 1]])
                        IN  IF bs[i].first > bs[i].last
                            THEN v = <<>>
                            ELSE raw = v \o <<NL>>

\* C14's case: a parsed block of two lines whose second line is blank: the stored value
\* keeps the first line's newline
C14_Witness ==
    /\ ParseOver /\ result # "format_error"
    /\ \E k \in DOMAIN cases :
         LET bs == Ref(disk0).cases[k].blocks
         IN  \E i \in DOMAIN bs :
               /\ LastOfName(bs, i)
               /\ bs[i].last = bs[i].first + 1
               /\ Lines(disk0)[bs[i].last] = <<NL>>
               /\ cases[k].params[bs[i].name] = <<"a", NL>>

\* C15: duplicate parameter names are last-write-wins in the value map: when a case body
\* defines the same name twice, get_param(name) after parsing returns exactly the lines
\* of the second block; the first block's content is discarded, not concatenated.
C15_LastWriteWins ==
    ParseOver =>
        LET R == Ref(disk0)
            L == Lines(disk0)
        IN  \A k \in DOMAIN cases :
              k <= Len(R.cases) =>
                LET bs == R.cases[k].blocks
                IN  \A i, j \in DOMAIN bs :
                      (/\ i < j
                       /\ bs[i].name = bs[j].name
                       /\ Cardinality({h \in DOMAIN bs : bs[h].name = bs[j].name}) = 2) =>
                        LET second == [h \in 1..(bs[j].last - bs[j].first + 1)
                                           |-> L[bs[j].first + h - 1]]
                            got == get_param(cases[k], bs[j].name)
                        IN  /\ got # None
                            /\ ValueLines(got[1]) = IF second = <<>> THEN <<<<NL>>>> ELSE second

\* C15's case: a case with two blocks of the same name, the first with content, whose
\* parameter reads as the second block's two lines
C15_Witness ==
    /\ ParseOver /\ result # "format_error"
    /\ \E k \in DOMAIN cases :
         LET bs == Ref(disk0).cases[k].blocks
         IN  \E i, j \in DOMAIN bs :
               /\ i < j /\ bs[i].name = bs[j].name
               /\ bs[i].first <= bs[i].last
               /\ bs[j].last = bs[j].first + 1
               /\ get_param(cases[k], bs[j].name) = Some(<<"w", NL, "w">>)

\* the failure report of the current run has been built
Aggregated ==
    \/ pc \in {"aggregated", "asserting"}
    \/ pc = "done" /\ result \in {"ok", "failed"}

RECURSIVE Offset(_, _)
\* the number of report entries that cases 1..k-1 account for: a marker and one record
\* per diff for a case with diffs, nothing for a case without
Offset(cs, k) ==
    IF k <= 1 THEN 0
    ELSE Offset(cs, k - 1)
           + (IF cs[k - 1].diffs = <<>> THEN 0 ELSE 1 + Len(cs[k - 1].diffs))

\* C16: the failure report lists cases in file order and, within a case, diffs in the
\* order they were recorded; a case with diffs contributes exactly one marker carrying
\* its name, placed before all its mismatch records, and a case with no diff contributes
\* nothing.
C16_ReportOrder ==
    Aggregated =>
        /\ Len(failures) = Offset(cases, Len(cases) + 1)
        /\ \A k \in DOMAIN cases :
             LET o == Offset(cases, k)
                 d == cases[k].diffs
             IN  d # <<>> =>
                   /\ failures[o + 1].kind = "CASE FAILED"
                   /\ failures[o + 1].name = cases[k].name
                   /\ \A i \in DOMAIN d :
                        /\ failures[o + 1 + i].kind = "PARAM MISMATCH"
                        /\ failures[o + 1 + i].name = d[i].param
                        /\ {failures[o + 1 + i].expected, failures[o + 1 + i].actual}
                             = {d[i].expected, d[i].actual}

\* C16's case: a report over two cases of different names, both with diffs, one of them
\* with two diffs of different computed values
C16_Witness ==
    /\ Aggregated
    /\ Len(cases) = 2
    /\ cases[1].name # cases[2].name
    /\ Len(cases[1].diffs) = 1
    /\ Len(cases[2].diffs) = 2
    /\ cases[2].diffs[1].expected # cases[2].diffs[2].expected
    /\ Len(failures) = 5

\* the positions of event `ev` in the log of the current run
At(ev) == {i \in DOMAIN log : log[i].ev = ev}

\* C17: the phases of a run never overlap and come in a fixed order: the file is fully
\* parsed into the in-memory cases and the input handle released before the test logic
\* is invoked on the first case; in update mode the output handle is opened only after
\* the test logic has returned from the last case; the success/failure signal comes
\* after the rewrite.
C17_PhaseOrder ==
    /\ reader # None => pc = "parsing" /\ log = <<Event("open", 0)>>
    /\ \A i \in At("run") :
         /\ \E j \in At("drop_reader") : j < i
         /\ Ref(disk0).end = "ok"
         /\ Len(cases) = Len(Ref(disk0).cases)
         /\ reader = None
    /\ \A i \in At("create") :
         /\ update
         /\ \A k \in DOMAIN cases : \E j \in At("run") : j < i /\ log[j].case = k
         /\ \A j \in At("run") : j < i
         /\ idx > Len(cases) /\ tpc = 0
         /\ i + 1 \in At("drop_writer")
    /\ \A i \in At("ok") \cup At("panic") :
         /\ i = Len(log)
         /\ pc = "done"
         /\ (update /\ result # "format_error") => i - 1 \in At("drop_writer")
    /\ (pc = "done" /\ update /\ result # "format_error") => At("create") # {}
    /\ At("drop_writer") # {} => pc \in {"asserting", "done"}

\* C17's case: a finished update run over two cases: open, the reader dropped, both
\* cases run, the file created and written, then the signal
C17_Witness ==
    /\ pc = "done" /\ update /\ result = "failed"
    /\ Len(cases) = 2
    /\ [i \in DOMAIN log |-> log[i].ev]
         = <<"open", "drop_reader", "run", "run", "create", "drop_writer", "panic">>

\* the positions in case.diffs of the diffs of parameter p
DiffsOf(case, p) == {i \in DOMAIN case.diffs : case.diffs[i].param = p}

\* C18: in every mismatch record of the failure report, the field labelled `expected`
\* shows the value stored before the compare_and_update_param call ("" when the
\* parameter was absent) and the field labelled `actual` the value the test logic newly
\* computed.  Stated over the finished report: per case and parameter, the first
\* record's `expected` is the parsed value, each later record's `expected` is the
\* `actual` of the record before it, every `actual` differs from its `expected`, and the
\* last record's `actual` is the value stored at the end.
C18_Labels ==
    Aggregated =>
        \A k \in DOMAIN cases :
          LET o == Offset(cases, k)
              d == cases[k].diffs
              rec(i) == failures[o + 1 + i]
          IN  \A i \in DOMAIN d :
                LET same == DiffsOf(cases[k], d[i].param)
                    earlier == {j \in same : j < i}
                IN  /\ rec(i).expected # rec(i).actual
                    /\ IF earlier = {}
                       THEN rec(i).expected =
                              IF d[i].param \in DOMAIN parsed[k].params
                              THEN parsed[k].params[d[i].param] ELSE <<>>
                       ELSE rec(i).expected = rec(Max(earlier)).actual
                    /\ i = Max(same) => rec(i).actual = cases[k].params[d[i].param]

\* C18's case: a report with two records of one parameter in a row: the stored "w" was
\* replaced by the computed "b", and that "b" by the next computed value
C18_Witness ==
    /\ Aggregated
    /\ \E j \in DOMAIN failures :
         /\ j + 1 \in DOMAIN failures
         /\ failures[j].kind = "PARAM MISMATCH"
         /\ failures[j + 1].kind = "PARAM MISMATCH"
         /\ failures[j].name = failures[j + 1].name
         /\ failures[j].expected = <<"w">>
         /\ failures[j].actual = <<"b">>
         /\ failures[j + 1].expected = <<"b">>

\* the current run got past parsing
Parsed == ParseFinished /\ result # "format_error"

\* C19: compare_and_update_param never changes a case's name or its order list, neither
\* when it overwrites a parameter nor when it creates one: after any calls the order list
\* is the list of the parameter headers of the parsed file in parse order, every name of
\* it is a key of the value map, and the writer emits exactly those parameters in that
\* order.
C19_OrderFrame ==
    Parsed =>
        \A k \in DOMAIN cases :
          LET bs == Ref(disk0).cases[k].blocks
              hdrs == [i \in DOMAIN bs |-> bs[i].name]
          IN  /\ cases[k].name = parsed[k].name
              /\ cases[k].name = Ref(disk0).cases[k].name
              /\ cases[k].order = parsed[k].order
              /\ cases[k].order = hdrs
              /\ Range(hdrs) \subseteq DOMAIN cases[k].params
              /\ TestCase_write(cases[k])
                   = Bracketed(cases[k].name)
                       \o Cat([i \in DOMAIN hdrs |->
                                 Bracketed(hdrs[i]) \o Ln(cases[k].params[hdrs[i]])
                                   \o Ln(PARAM_SEP)])
                       \o Ln(CASE_SEP) \o <<NL>>

\* C19's case: the test logic has overwritten a listed parameter and then created one
\* that has no header; the order list is the parsed one
C19_Witness ==
    /\ pc = "running"
    /\ lastCall # None
    /\ LET c == lastCall[1]
       IN  /\ c.param \notin DOMAIN c.before.params
           /\ c.param \in DOMAIN cases[c.case].params
           /\ c.param \notin Range(cases[c.case].order)
           /\ Len(cases[c.case].diffs) = 2
           /\ cases[c.case].diffs[1].param \in Range(cases[c.case].order)
           /\ cases[c.case].order = parsed[c.case].order

\* C20: a successful run changed no stored value: if a run signals success, no case has a
\* Diff, and every parameter present after parsing holds its parsed value after the run,
\* whatever calls the test logic made.
C20_SuccessChangedNothing ==
    (pc = "done" /\ result = "ok") =>
        \A k \in DOMAIN cases :
          /\ cases[k].diffs = <<>>
          /\ \A p \in DOMAIN parsed[k].params :
               /\ p \in DOMAIN cases[k].params
               /\ cases[k].params[p] = parsed[k].params[p]

\* C20's case: a run over two cases, with two compare_and_update_param calls on each,
\* has signalled success
C20_Witness ==
    /\ pc = "done" /\ result = "ok"
    /\ Len(cases) = 2
    /\ Len(tester) = 2
    /\ lastCall # None /\ lastCall[1].case = 2

\* C20, the converse: a run that recorded diffs and signalled failure, with every
\* parameter present after parsing back at its parsed value
C20_DiffsButUnchanged ==
    /\ pc = "done" /\ result = "failed"
    /\ cases # <<>>
    /\ \A k \in DOMAIN cases :
         /\ Len(cases[k].diffs) = 2
         /\ \A p \in DOMAIN parsed[k].params : cases[k].params[p] = parsed[k].params[p]

====
